---- MODULE Spec2Model ----
(***************************************************************************)
(* Medication-error logger (streamlit_app.py): configuration resolution,   *)
(* the cached worksheet handle, header repair, append, and the cached      *)
(* read/normalise path, as one state machine.                              *)
(*                                                                         *)
(* A text is a sequence of tokens; the token " " is whitespace, every      *)
(* other token is a non-blank piece of the string.  A mapping (dict,       *)
(* TOML table, JSON object) is a function from its keys to texts.  An      *)
(* optional value is a sequence of length 0 (None) or 1.                   *)
(***************************************************************************)
EXTENDS Integers, Sequences, FiniteSets, TLC

(***************************************************************************)
(* Bounds of the model                                                     *)
(***************************************************************************)
MaxSessions == 2      \* browser sessions served by the one process
MaxAppends == 2       \* successful append_row calls in a behaviour
MaxRestarts == 1      \* process restarts in a behaviour
MaxRows == 2          \* data rows of a sheet the normaliser is applied to

(***************************************************************************)
(* Text helpers (str.strip)                                                *)
(***************************************************************************)
Whitespace == {" "}

RECURSIVE LStrip(_)
LStrip(t) == IF t = <<>> \/ Head(t) \notin Whitespace THEN t ELSE LStrip(Tail(t))

RECURSIVE RStrip(_)
RStrip(t) ==
  IF t = <<>> \/ t[Len(t)] \notin Whitespace THEN t
  ELSE RStrip(SubSeq(t, 1, Len(t) - 1))

Strip(t) == RStrip(LStrip(t))

\* dict.get(key, default) and os.getenv(key, default)
Get(d, key, default) == IF key \in DOMAIN d THEN d[key] ELSE default

(***************************************************************************)
(* Constants of the program                                                *)
(***************************************************************************)
PROCESS_OPTIONS == <<"prescribing", "dispensing", "administering", "patient_misuse">>
SEVERITY_OPTIONS == <<"A", "B", "C", "D", "E", "F", "G", "H", "I">>

\* A column name is a one-token text, so that header cells and data cells are
\* texts alike.
HEADERS ==
  << <<"recorded_at">>, <<"unit_name">>, <<"reporter">>, <<"event_date">>,
     <<"event_time">>, <<"process">>, <<"drug_name">>, <<"severity">>,
     <<"details">> >>

DefaultWorksheet == <<"MedicationError">>

VARIABLES
  st_secrets,      \* the secrets store: block name -> mapping
  environ,         \* the process environment: variable name -> text
  files,           \* the file system: path -> content
  pd_lenient,      \* whether the installed date parser accepts a date or a time alone
  ws_exists,       \* backend: the worksheet exists in the spreadsheet
  grid,            \* backend: the worksheet's rows, row 1 first; a row is a sequence of cells
  resource_cache,  \* st.cache_resource entry of get_worksheet: <<>> or <<handle>>
  resource_lock,   \* its compute lock: 0 or the session computing
  data_cache,      \* st.cache_data entry of load_records: <<>> or <<table>>
  data_lock,       \* its compute lock: 0 or the session computing
  pc,              \* per session: where its script run stands
  status,          \* per session: what the connection-status panel resolved
  form,            \* per session: <<>> or <<the submitted form>>
  row,             \* per session: <<>> or <<the row append_incident sent>>
  ws,              \* per session: <<>> or <<the handle get_worksheet returned>>
  df,              \* per session: <<>> or <<the table load_records computed>>
  errors,          \* per session: the validation errors render_form_tab reported
  clock,           \* wall clock, in appends made
  restarts,        \* process restarts so far
  completed,       \* rows of the submissions that ran to "saved"
  header_writes    \* ws.update calls of ensure_headers so far

cfg_vars == <<st_secrets, environ, files, pd_lenient>>
backend_vars == <<ws_exists, grid>>
cache_vars == <<resource_cache, resource_lock, data_cache, data_lock>>
local_vars == <<pc, status, form, row, ws, df, errors>>
hist_vars == <<clock, restarts, completed, header_writes>>
vars == <<cfg_vars, backend_vars, cache_vars, local_vars, hist_vars>>

(***************************************************************************)
(* Config resolver                                                         *)
(***************************************************************************)
\* st.secrets[key], any failure giving the default None
safe_get_st_secret(key) == IF key \in DOMAIN st_secrets THEN <<st_secrets[key]>> ELSE <<>>

\* truth value of an optional mapping: None and the empty mapping are false
Truthy(opt) == opt # <<>> /\ DOMAIN opt[1] # {}

RECURSIVE ReplaceEscapedNewlines(_)
ReplaceEscapedNewlines(t) ==
  IF t = <<>> THEN <<>>
  ELSE <<(IF Head(t) = "\\n" THEN "\n" ELSE Head(t))>> \o ReplaceEscapedNewlines(Tail(t))

normalize_private_key(creds) ==
  IF "private_key" \in DOMAIN creds
  THEN [creds EXCEPT !["private_key"] = ReplaceEscapedNewlines(@)]
  ELSE creds

\* The JSON documents the model knows: a text that is exactly one of these
\* tokens parses to the document, any other text is malformed.
JsonDocs ==
  [ k \in {"{env}", "{file}"} |->
      [ client_email |-> <<k>>, private_key |-> <<"K", "\\n", "K">> ] ]

JsonLoads(t) ==
  IF Len(t) = 1 /\ t[1] \in DOMAIN JsonDocs
  THEN [ok |-> TRUE, doc |-> JsonDocs[t[1]]]
  ELSE [ok |-> FALSE]

Raise(e) == [ok |-> FALSE, error |-> e]
Return(c, u, w) == [ok |-> TRUE, creds |-> c, spreadsheet_url |-> u, worksheet_name |-> w]

\* the "or default" is left out
OrDefault_left_out(t) == t

OrDefault(t) == IF t = <<>> THEN DefaultWorksheet ELSE t

\* the environment variables load_google_config reads, stripped
env_json == Strip(Get(environ, "GCP_SERVICE_ACCOUNT_JSON", <<>>))
env_url == Strip(Get(environ, "GSHEET_URL", <<>>))
env_worksheet == OrDefault(Strip(Get(environ, "GSHEET_WORKSHEET", DefaultWorksheet)))
env_creds_file == Strip(Get(environ, "GCP_SERVICE_ACCOUNT_FILE", <<>>))

\* Each source gives <<>> when it does not apply, else <<what the function
\* returns or raises there>>.
\* 1) Streamlit secrets
from_secrets ==
  LET svc == safe_get_st_secret("gcp_service_account")
      gsheet_cfg == safe_get_st_secret("gsheets")
  IN IF Truthy(svc) /\ Truthy(gsheet_cfg)
     THEN LET url == Strip(Get(gsheet_cfg[1], "spreadsheet_url", <<>>))
              wsn == OrDefault(Strip(Get(gsheet_cfg[1], "worksheet", DefaultWorksheet)))
          IN IF url = <<>> THEN <<Raise("ValueError")>>
             ELSE <<Return(normalize_private_key(svc[1]), url, wsn)>>
     ELSE <<>>

\* 2) ENV JSON
from_env_json ==
  IF env_json # <<>> /\ env_url # <<>>
  THEN LET j == JsonLoads(env_json)
       IN IF ~j.ok THEN <<Raise("JSONDecodeError")>>
          ELSE <<Return(normalize_private_key(j.doc), env_url, env_worksheet)>>
  ELSE <<>>

\* 3) ENV secret file
from_env_file ==
  IF env_creds_file # <<>> /\ env_url # <<>>
  THEN IF env_creds_file \notin DOMAIN files THEN <<Raise("FileNotFoundError")>>
       ELSE LET j == JsonLoads(files[env_creds_file])
            IN IF ~j.ok THEN <<Raise("JSONDecodeError")>>
               ELSE <<Return(normalize_private_key(j.doc), env_url, env_worksheet)>>
  ELSE <<>>

\* the error that lists the three ways to configure
NotConfigured ==
  Raise(<< "RuntimeError", "GCP_SERVICE_ACCOUNT_JSON + GSHEET_URL",
           "GCP_SERVICE_ACCOUNT_FILE + GSHEET_URL", ".streamlit/secrets.toml" >>)

RECURSIVE FirstApplicable(_)
FirstApplicable(sources) ==
  IF sources = <<>> THEN NotConfigured
  ELSE IF Head(sources) # <<>> THEN Head(sources)[1]
  ELSE FirstApplicable(Tail(sources))

\* the file is tried before the JSON variable
load_google_config_file_first ==
  FirstApplicable(<<from_secrets, from_env_file, from_env_json>>)

load_google_config == FirstApplicable(<<from_secrets, from_env_json, from_env_file>>)

(***************************************************************************)
(* App config                                                              *)
(***************************************************************************)
get_app_config ==
  [ unit_name |-> Get(environ, "UNIT_NAME", <<"unspecified unit">>) ]

(***************************************************************************)
(* Sheet accessor: the worksheet operations, on the backend grid           *)
(***************************************************************************)
Range(q) == {q[i] : i \in DOMAIN q}
Min(a, b) == IF a < b THEN a ELSE b

RECURSIVE DropTrailingBlank(_)
DropTrailingBlank(r) ==
  IF r = <<>> \/ r[Len(r)] # <<>> THEN r
  ELSE DropTrailingBlank(SubSeq(r, 1, Len(r) - 1))

\* ws.row_values(n): the cells of row n up to its last non-empty one
row_values(g, n) == IF n <= Len(g) THEN DropTrailingBlank(g[n]) ELSE <<>>

\* the whole row is compared, not its first nine cells
HeadersDiffer_whole_row(current_headers) == current_headers # HEADERS

\* current_headers[: len(HEADERS)] != HEADERS
HeadersDiffer(current_headers) ==
  SubSeq(current_headers, 1, Min(Len(current_headers), Len(HEADERS))) # HEADERS

\* ws.update("A1:I1", [HEADERS]): the first nine cells of row 1, nothing else
update_A1_I1(g) ==
  IF g = <<>> THEN <<HEADERS>>
  ELSE [g EXCEPT ![1] = HEADERS \o SubSeq(@, Len(HEADERS) + 1, Len(@))]

\* the row is inserted below the header instead of appended
insert_row_2(g, r) ==
  IF Len(g) < 2 THEN Append(g, r) ELSE <<g[1], r>> \o SubSeq(g, 2, Len(g))

\* ws.append_row(row): one row after the last row of the sheet
append_row(g, r) == Append(g, r)

DateText == <<"2024-01-10", "2024-01-11">>
TimeText == <<"09:00", "10:30">>

\* datetime.now(THAI_TZ).strftime("%Y-%m-%d %H:%M:%S") at clock value c
now_str(c) == <<"2024-01-12 08:00:", ToString(c)>>

\* the free-text fields are not trimmed
incident_row_untrimmed(config, f, c) ==
  << now_str(c), config.unit_name, f.reporter, <<DateText[f.event_date]>>,
     <<TimeText[f.event_time]>>, <<f.process>>, f.drug_name, <<f.severity>>, f.details >>

\* the row append_incident builds
incident_row(config, f, c) ==
  << now_str(c),
     config.unit_name,
     f.reporter,
     <<DateText[f.event_date]>>,
     <<TimeText[f.event_time]>>,
     <<f.process>>,
     Strip(f.drug_name),
     <<f.severity>>,
     Strip(f.details) >>

\* the fields are tested without trimming
form_errors_untrimmed(f) ==
  (IF f.drug_name = <<>> THEN {"drug_name"} ELSE {})
    \cup (IF f.details = <<>> THEN {"details"} ELSE {})

\* the validation of render_form_tab: the error messages of a form
form_errors(f) ==
  (IF Strip(f.drug_name) = <<>> THEN {"drug_name"} ELSE {})
    \cup (IF Strip(f.details) = <<>> THEN {"details"} ELSE {})

(***************************************************************************)
(* Read path: get_all_records and the normaliser of load_records           *)
(***************************************************************************)
IndexOf(q, x) == CHOOSE i \in DOMAIN q : q[i] = x

\* ws.get_all_records(default_blank=""): one dict per data row, keyed by row 1
get_all_records(g) ==
  IF Len(g) < 2 THEN <<>>
  ELSE [ i \in 1..(Len(g) - 1) |->
           [ k \in Range(g[1]) |->
               IF IndexOf(g[1], k) <= Len(g[i + 1])
               THEN g[i + 1][IndexOf(g[1], k)] ELSE <<>> ] ]

\* pd.DataFrame(records): the columns are the keys, in header order
DataFrame(records, keys) == [columns |-> keys, rows |-> records]

\* for col in HEADERS: if col not in df.columns: df[col] = ""
RECURSIVE AddMissing(_, _)
AddMissing(d, cols) ==
  IF cols = <<>> THEN d
  ELSE IF Head(cols) \in Range(d.columns) THEN AddMissing(d, Tail(cols))
  ELSE AddMissing(
         [ columns |-> Append(d.columns, Head(cols)),
           rows |-> [ i \in DOMAIN d.rows |->
                        [ k \in DOMAIN d.rows[i] \cup {Head(cols)} |->
                            IF k = Head(cols) THEN <<>> ELSE d.rows[i][k] ] ] ],
         Tail(cols))

\* df[cols]
Select(d, cols) ==
  [ columns |-> cols,
    rows |-> [ i \in DOMAIN d.rows |-> [ k \in Range(cols) |-> d.rows[i][k] ] ] ]

NaT == <<>>

\* pd.to_datetime(text, errors="coerce"): <<timestamp>> or NaT.  A date and a
\* time parse; a date alone or a time alone parse only with a lenient parser.
to_datetime(t) ==
  IF Len(t) = 3 /\ t[1] \in Range(DateText) /\ t[2] = " " /\ t[3] \in Range(TimeText)
  THEN <<IndexOf(DateText, t[1]) * 100 + IndexOf(TimeText, t[3])>>
  ELSE IF Len(t) = 2 /\ t[1] \in Range(DateText) /\ t[2] = " " /\ pd_lenient
  THEN <<IndexOf(DateText, t[1]) * 100>>
  ELSE IF Len(t) = 2 /\ t[1] = " " /\ t[2] \in Range(TimeText) /\ pd_lenient
  THEN <<(Len(DateText) + 1) * 100 + IndexOf(TimeText, t[2])>>
  ELSE NaT

SortKey == <<"_sort_dt">>

\* dt_text = strip(event_date) + " " + strip(event_time); df["_sort_dt"] = ...
WithSortKey(d) ==
  [ columns |-> Append(d.columns, SortKey),
    rows |-> [ i \in DOMAIN d.rows |->
                 [ k \in DOMAIN d.rows[i] \cup {SortKey} |->
                     IF k = SortKey
                     THEN to_datetime(Strip(d.rows[i][<<"event_date">>]) \o <<" ">>
                                        \o Strip(d.rows[i][<<"event_time">>]))
                     ELSE d.rows[i][k] ] ] ]

\* NaT first
SortsBefore_na_first(a, b) == b # NaT /\ (a = NaT \/ a[1] > b[1])

\* a sorts strictly before b: descending, NaT last
SortsBefore(a, b) == a # NaT /\ (b = NaT \/ a[1] > b[1])

RECURSIVE InsertSorted(_, _)
InsertSorted(r, sorted) ==
  IF sorted = <<>> THEN <<r>>
  ELSE IF SortsBefore(r[SortKey], Head(sorted)[SortKey]) THEN <<r>> \o sorted
  ELSE <<Head(sorted)>> \o InsertSorted(r, Tail(sorted))

RECURSIVE SortRows(_)
SortRows(rs) ==
  IF rs = <<>> THEN <<>>
  ELSE InsertSorted(rs[Len(rs)], SortRows(SubSeq(rs, 1, Len(rs) - 1)))

\* df.sort_values("_sort_dt", ascending=False, na_position="last")
sort_values(d) == [columns |-> d.columns, rows |-> SortRows(d.rows)]

\* the helper column is kept
keep_sort_key(d) == d

\* .drop(columns=["_sort_dt"])
drop_sort_key(d) ==
  [ columns |-> SelectSeq(d.columns, LAMBDA c : c # SortKey),
    rows |-> [ i \in DOMAIN d.rows |->
                 [ k \in DOMAIN d.rows[i] \ {SortKey} |-> d.rows[i][k] ] ] ]

\* the body of load_records after get_worksheet, on the grid it reads
load_records_body(g) ==
  LET records == get_all_records(g)
  IN IF records = <<>> THEN [columns |-> HEADERS, rows |-> <<>>]
     ELSE drop_sort_key(sort_values(WithSortKey(
            Select(AddMissing(DataFrame(records, g[1]), HEADERS), HEADERS))))

(***************************************************************************)
(* The process: sessions re-run main() against the shared caches           *)
(***************************************************************************)
Sessions == 1..MaxSessions

\* who called get_worksheet: render_form_tab holds the form, load_records
\* does not
InSubmit(s) == form[s] # <<>>

\* main(): a script run starts; the connection-status panel resolves the config
Rerun(s) ==
  /\ pc[s] = "idle"
  /\ pc' = [pc EXCEPT ![s] = "form"]
  /\ status' = [status EXCEPT ![s] = <<load_google_config>>]
  /\ UNCHANGED <<cfg_vars, backend_vars, cache_vars, form, row, ws, df, errors, hist_vars>>

\* render_form_tab: the save button was not pressed
NoClick(s) ==
  /\ pc[s] = "form"
  /\ pc' = [pc EXCEPT ![s] = "history"]
  /\ UNCHANGED <<cfg_vars, backend_vars, cache_vars, status, form, row, ws, df, errors, hist_vars>>

\* the submissions under way
Submitting == {s \in Sessions : form[s] # <<>>}

\* render_form_tab: the save button was pressed with form f in the widgets
\* (the model stops taking submissions once MaxAppends rows are written or due)
Click(s, f) ==
  /\ pc[s] = "form"
  /\ clock + Cardinality(Submitting) < MaxAppends
  /\ pc' = [pc EXCEPT ![s] = "validate"]
  /\ form' = [form EXCEPT ![s] = <<f>>]
  /\ UNCHANGED <<cfg_vars, backend_vars, cache_vars, status, row, ws, df, errors, hist_vars>>

\* render_form_tab: validation found errors: they are shown and it returns
ValidateFails(s) ==
  /\ pc[s] = "validate"
  /\ form_errors(form[s][1]) # {}
  /\ errors' = [errors EXCEPT ![s] = form_errors(form[s][1])]
  /\ form' = [form EXCEPT ![s] = <<>>]
  /\ pc' = [pc EXCEPT ![s] = "history"]
  /\ UNCHANGED <<cfg_vars, backend_vars, cache_vars, status, row, ws, df, hist_vars>>

\* render_form_tab: no errors: get_worksheet() is called
ValidatePasses(s) ==
  /\ pc[s] = "validate"
  /\ form_errors(form[s][1]) = {}
  /\ pc' = [pc EXCEPT ![s] = "gw_call"]
  /\ UNCHANGED <<cfg_vars, backend_vars, cache_vars, status, form, row, ws, df, errors, hist_vars>>

\* where get_worksheet returns to
AfterGetWorksheet(s) == IF InSubmit(s) THEN "append" ELSE "lr_read"

\* the script run is over
EndRun(s) ==
  /\ pc' = [pc EXCEPT ![s] = "idle"]
  /\ status' = [status EXCEPT ![s] = <<>>]
  /\ ws' = [ws EXCEPT ![s] = <<>>]
  /\ df' = [df EXCEPT ![s] = <<>>]

\* get_worksheet raised, nothing is cached.  render_form_tab reports it and the
\* run goes on to the history tab; load_records lets it through (its own
\* compute lock is released) and render_history_tab reports it
GetWorksheetRaises(s) ==
  /\ resource_lock' = 0
  /\ UNCHANGED <<resource_cache, data_cache, row, errors>>
  /\ IF InSubmit(s)
     THEN /\ pc' = [pc EXCEPT ![s] = "history"]
          /\ form' = [form EXCEPT ![s] = <<>>]
          /\ UNCHANGED <<data_lock, status, ws, df>>
     ELSE /\ EndRun(s)
          /\ data_lock' = 0
          /\ UNCHANGED form

\* @st.cache_resource: the entry is there, get_worksheet is not run
GW_Hit(s) ==
  /\ pc[s] = "gw_call"
  /\ resource_cache # <<>>
  /\ ws' = [ws EXCEPT ![s] = resource_cache]
  /\ pc' = [pc EXCEPT ![s] = AfterGetWorksheet(s)]
  /\ UNCHANGED <<cfg_vars, backend_vars, cache_vars, status, form, row, df, errors, hist_vars>>

\* @st.cache_resource: no entry; once the compute lock is free and there is
\* still no entry, take the lock and run get_worksheet
GW_Lock(s) ==
  /\ pc[s] = "gw_call"
  /\ resource_lock = 0
  /\ resource_cache = <<>>
  /\ resource_lock' = s
  /\ pc' = [pc EXCEPT ![s] = "gw_open"]
  /\ UNCHANGED <<cfg_vars, backend_vars, resource_cache, data_cache, data_lock,
                 status, form, row, ws, df, errors, hist_vars>>

\* get_worksheet: load_google_config, service_account_from_dict, open_by_url
GW_Open(s) ==
  /\ pc[s] = "gw_open"
  /\ \E backend_ok \in BOOLEAN :
       IF load_google_config.ok /\ backend_ok
       THEN /\ pc' = [pc EXCEPT ![s] = "gw_lookup"]
            /\ UNCHANGED <<cache_vars, status, form, row, ws, df, errors>>
       ELSE GetWorksheetRaises(s)
  /\ UNCHANGED <<cfg_vars, backend_vars, hist_vars>>

\* get_worksheet: sh.worksheet(name), or add_worksheet when it is not found
GW_Lookup(s) ==
  /\ pc[s] = "gw_lookup"
  /\ \E backend_ok \in BOOLEAN :
       IF backend_ok
       THEN /\ ws_exists' = TRUE
            /\ grid' = IF ws_exists THEN grid ELSE <<>>
            /\ pc' = [pc EXCEPT ![s] = "eh_read"]
            /\ UNCHANGED <<cache_vars, status, form, row, ws, df, errors>>
       ELSE /\ GetWorksheetRaises(s)
            /\ UNCHANGED backend_vars
  /\ UNCHANGED <<cfg_vars, hist_vars>>

\* ensure_headers: read row 1 and compare
EH_Read(s) ==
  /\ pc[s] = "eh_read"
  /\ \E backend_ok \in BOOLEAN :
       IF backend_ok
       THEN /\ pc' = [pc EXCEPT ![s] =
                        IF HeadersDiffer(row_values(grid, 1)) THEN "eh_write" ELSE "gw_store"]
            /\ UNCHANGED <<cache_vars, status, form, row, ws, df, errors>>
       ELSE GetWorksheetRaises(s)
  /\ UNCHANGED <<cfg_vars, backend_vars, hist_vars>>

\* ensure_headers: overwrite A1:I1
EH_Write(s) ==
  /\ pc[s] = "eh_write"
  /\ \E backend_ok \in BOOLEAN :
       IF backend_ok
       THEN /\ grid' = update_A1_I1(grid)
            /\ header_writes' = header_writes + 1
            /\ pc' = [pc EXCEPT ![s] = "gw_store"]
            /\ UNCHANGED <<cache_vars, status, form, row, ws, df, errors>>
       ELSE /\ GetWorksheetRaises(s)
            /\ UNCHANGED <<grid, header_writes>>
  /\ UNCHANGED <<cfg_vars, ws_exists, clock, restarts, completed>>

\* get_worksheet returned: the handle is cached and the lock released
GW_Store(s) ==
  /\ pc[s] = "gw_store"
  /\ resource_cache' = <<[id |-> restarts + 1]>>
  /\ resource_lock' = 0
  /\ ws' = [ws EXCEPT ![s] = resource_cache']
  /\ pc' = [pc EXCEPT ![s] = AfterGetWorksheet(s)]
  /\ UNCHANGED <<cfg_vars, backend_vars, data_cache, data_lock, status, form, row, df,
                 errors, hist_vars>>

\* append_incident: build the row and append it; a backend error is reported
AppendIncident(s) ==
  /\ pc[s] = "append"
  /\ \E backend_ok \in BOOLEAN :
       IF backend_ok
       THEN /\ grid' = append_row(grid, incident_row(get_app_config, form[s][1], clock + 1))
            /\ row' = [row EXCEPT ![s] = <<grid'[Len(grid')]>>]
            /\ clock' = clock + 1
            /\ pc' = [pc EXCEPT ![s] = "clear"]
            /\ UNCHANGED form
       ELSE /\ pc' = [pc EXCEPT ![s] = "history"]
            /\ form' = [form EXCEPT ![s] = <<>>]
            /\ UNCHANGED <<grid, row, clock>>
  /\ UNCHANGED <<cfg_vars, ws_exists, cache_vars, status, ws, df, errors,
                 restarts, completed, header_writes>>

\* every cache is cleared, the worksheet handle too
ClearCache_all(s) ==
  /\ pc[s] = "clear"
  /\ data_cache' = <<>>
  /\ resource_cache' = <<>>
  /\ completed' = completed \cup {row[s][1]}
  /\ row' = [row EXCEPT ![s] = <<>>]
  /\ form' = [form EXCEPT ![s] = <<>>]
  /\ pc' = [pc EXCEPT ![s] = "history"]
  /\ UNCHANGED <<cfg_vars, backend_vars, resource_lock, data_lock,
                 status, ws, df, errors, clock, restarts, header_writes>>

\* load_records.clear(), then the success message
ClearCache(s) ==
  /\ pc[s] = "clear"
  /\ data_cache' = <<>>
  /\ completed' = completed \cup {row[s][1]}
  /\ row' = [row EXCEPT ![s] = <<>>]
  /\ form' = [form EXCEPT ![s] = <<>>]
  /\ pc' = [pc EXCEPT ![s] = "history"]
  /\ UNCHANGED <<cfg_vars, backend_vars, resource_cache, resource_lock, data_lock,
                 status, ws, df, errors, clock, restarts, header_writes>>

\* @st.cache_data(ttl=10): the entry is there, load_records is not run and the
\* entry is what the call returns
LR_Hit(s) ==
  /\ pc[s] = "history"
  /\ data_cache # <<>>
  /\ errors' = [errors EXCEPT ![s] = {}]
  /\ EndRun(s)
  /\ UNCHANGED <<cfg_vars, backend_vars, cache_vars, form, row, hist_vars>>

\* @st.cache_data: no entry; once the compute lock is free and there is still
\* no entry, take the lock and run load_records, which calls get_worksheet
LR_Lock(s) ==
  /\ pc[s] = "history"
  /\ data_lock = 0
  /\ data_cache = <<>>
  /\ data_lock' = s
  /\ errors' = [errors EXCEPT ![s] = {}]
  /\ pc' = [pc EXCEPT ![s] = "gw_call"]
  /\ UNCHANGED <<cfg_vars, backend_vars, resource_cache, resource_lock, data_cache,
                 status, form, row, ws, df, hist_vars>>

\* load_records: get_all_records and the normaliser; a backend error goes to
\* render_history_tab, which reports it
LR_Read(s) ==
  /\ pc[s] = "lr_read"
  /\ \E backend_ok \in BOOLEAN :
       IF backend_ok
       THEN /\ df' = [df EXCEPT ![s] = <<load_records_body(grid)>>]
            /\ pc' = [pc EXCEPT ![s] = "lr_store"]
            /\ UNCHANGED <<data_lock, status, ws>>
       ELSE /\ EndRun(s)
            /\ data_lock' = 0
  /\ UNCHANGED <<cfg_vars, backend_vars, resource_cache, resource_lock, data_cache,
                 form, row, errors, hist_vars>>

\* @st.cache_data: the table load_records returned is written to the cache,
\* the lock released, and the table returned to render_history_tab
LR_Store(s) ==
  /\ pc[s] = "lr_store"
  /\ data_cache' = df[s]
  /\ data_lock' = 0
  /\ EndRun(s)
  /\ UNCHANGED <<cfg_vars, backend_vars, resource_cache, resource_lock, form, row,
                 errors, hist_vars>>

\* @st.cache_data(ttl=10): the entry is older than ten seconds
Expire ==
  /\ data_cache # <<>>
  /\ data_cache' = <<>>
  /\ UNCHANGED <<cfg_vars, backend_vars, resource_cache, resource_lock, data_lock,
                 local_vars, hist_vars>>

NoSession == [s \in Sessions |-> <<>>]

\* the process is started again: both caches and every session start afresh
Restart ==
  /\ restarts < MaxRestarts
  /\ restarts' = restarts + 1
  /\ resource_cache' = <<>>
  /\ resource_lock' = 0
  /\ data_cache' = <<>>
  /\ data_lock' = 0
  /\ pc' = [s \in Sessions |-> "idle"]
  /\ status' = NoSession
  /\ form' = NoSession
  /\ row' = NoSession
  /\ ws' = NoSession
  /\ df' = NoSession
  /\ errors' = [s \in Sessions |-> {}]
  /\ UNCHANGED <<cfg_vars, backend_vars, clock, completed, header_writes>>

SessionStep(s, F) ==
  \/ Rerun(s)
  \/ NoClick(s)
  \/ \E f \in F : Click(s, f)
  \/ ValidateFails(s)
  \/ ValidatePasses(s)
  \/ GW_Hit(s)
  \/ GW_Lock(s)
  \/ GW_Open(s)
  \/ GW_Lookup(s)
  \/ EH_Read(s)
  \/ EH_Write(s)
  \/ GW_Store(s)
  \/ AppendIncident(s)
  \/ ClearCache(s)
  \/ LR_Hit(s)
  \/ LR_Lock(s)
  \/ LR_Read(s)
  \/ LR_Store(s)

(***************************************************************************)
(* Inputs                                                                  *)
(***************************************************************************)
Opt(S) == {<<>>} \cup {<<x>> : x \in S}

\* a mapping holding the options that are set
MappingOf(opts) == [k \in {n \in DOMAIN opts : opts[n] # <<>>} |-> opts[k][1]]

SvcDoc == [client_email |-> <<"{secrets}">>, private_key |-> <<"K", "\\n", "K">>]
SheetUrl == <<"https://sheet">>

UrlTexts == {<<>>, <<" ">>, SheetUrl, <<" ">> \o SheetUrl \o <<" ">>}
WorksheetTexts == {<<" ">>, <<"Incidents">>}
JsonTexts == {<<>>, <<" ">>, <<"{env}">>, <<" ", "{env}">>, <<"{">>}
PathTexts == {<<>>, <<"creds.json">>, <<" ", "creds.json">>}

AllSecrets ==
  { MappingOf([gcp_service_account |-> a, gsheets |-> g]) :
      a \in Opt({<<>>, SvcDoc}),
      g \in Opt({ MappingOf([spreadsheet_url |-> u, worksheet |-> w]) :
                    u \in Opt(UrlTexts \ {SheetUrl}), w \in Opt(WorksheetTexts) }) }

AllEnvirons ==
  { MappingOf([ GCP_SERVICE_ACCOUNT_JSON |-> j, GCP_SERVICE_ACCOUNT_FILE |-> f,
                GSHEET_URL |-> u, GSHEET_WORKSHEET |-> w ]) :
      j \in Opt(JsonTexts), f \in Opt(PathTexts),
      u \in Opt(UrlTexts \ {SheetUrl}), w \in Opt(WorksheetTexts) }

AllFiles ==
  { <<>>, [p \in {<<"creds.json">>} |-> <<"{file}">>], [p \in {<<"creds.json">>} |-> <<"{">>] }

\* the deployments of the process model: configured by secrets, not configured
Deployments ==
  { [ secrets |-> MappingOf([gcp_service_account |-> <<SvcDoc>>,
                             gsheets |-> <<MappingOf([spreadsheet_url |-> <<SheetUrl>>])>>]),
      environ |-> MappingOf([UNIT_NAME |-> << <<"ward 1">> >>]) ],
    [ secrets |-> <<>>, environ |-> <<>> ] }

LegacyHeader ==
  << <<"recorded_at">>, <<"event_date">>, <<"event_time">>, <<"process">>,
     <<"drug_name">>, <<"severity">>, <<"details">> >>

\* row i of a sheet with header h: the date and time cells as given, a tag
\* naming the row in every other cell
SheetRow(h, i, d, t) ==
  [ c \in DOMAIN h |->
      IF h[c] = <<"event_date">> THEN d
      ELSE IF h[c] = <<"event_time">> THEN t
      ELSE <<"row", ToString(i)>> ]

\* the worksheets the process may find: none, a blank one, one with the
\* header, an older seven-column one with a record, a wider one with a record
FoundSheets ==
  { [exists |-> FALSE, grid |-> <<>>],
    [exists |-> TRUE, grid |-> <<>>],
    [exists |-> TRUE, grid |-> <<HEADERS>>],
    [exists |-> TRUE,
     grid |-> <<LegacyHeader, SheetRow(LegacyHeader, 1, <<DateText[1]>>, <<TimeText[2]>>)>>],
    [exists |-> TRUE,
     grid |-> << HEADERS \o << <<"note">> >>,
                 SheetRow(HEADERS \o << <<"note">> >>, 1, <<"n/a">>, <<>>) >>] }

\* the forms of the process model: one valid, one with a blank drug name
Forms ==
  [ reporter : {<<"nurse">>}, event_date : {1}, event_time : {1},
    process : {PROCESS_OPTIONS[3]}, severity : {SEVERITY_OPTIONS[3]},
    drug_name : {<<" ">>, <<" ", "Insulin", " ">>},
    details : {<<" ", "overdose", " ">>} ]

\* the forms of the single-session form model
AllForms ==
  [ reporter : {<<"nurse">>}, event_date : {1}, event_time : {1},
    process : {PROCESS_OPTIONS[1], PROCESS_OPTIONS[3]},
    severity : {SEVERITY_OPTIONS[3], SEVERITY_OPTIONS[9]},
    drug_name : {<<>>, <<" ">>, <<"Insulin">>, <<" ", "Insulin", " ">>},
    details : {<<>>, <<" ", " ">>, <<"over", " ", "dose">>, <<" ", "over", " ", "dose", " ">>} ]

\* the sheets the normaliser is applied to: any of these header rows, up to
\* MaxRows data rows, any of these date and time cells
NormHeaders ==
  { HEADERS,
    HEADERS \o << <<"note">> >>,
    LegacyHeader,
    << <<"drug_name">> >>,
    << <<"note">>, <<"event_time">>, <<"recorded_at">> >> }

DateCells == {<<DateText[1]>>, <<" ", DateText[2], " ">>, <<"n/a">>, <<>>}
TimeCells == {<<TimeText[1]>>, <<TimeText[2], " ">>, <<>>}

NormGrids ==
  UNION { { <<h>> \o [i \in 1..n |-> SheetRow(h, i, c[i][1], c[i][2])] :
              h \in NormHeaders, c \in [1..n -> DateCells \X TimeCells] } :
          n \in 0..MaxRows }

(***************************************************************************)
(* Specifications                                                          *)
(***************************************************************************)
\* a process that has just started
InitProcess ==
  /\ resource_lock = 0
  /\ data_cache = <<>>
  /\ data_lock = 0
  /\ pc = [s \in Sessions |-> "idle"]
  /\ status = NoSession
  /\ form = NoSession
  /\ row = NoSession
  /\ ws = NoSession
  /\ df = NoSession
  /\ errors = [s \in Sessions |-> {}]
  /\ clock = 0
  /\ restarts = 0
  /\ completed = {}
  /\ header_writes = 0

\* The sheets of FoundSheets hold no cell with a date or a time alone, so the
\* parser's leniency does not show here.
Init ==
  /\ InitProcess
  /\ resource_cache = <<>>
  /\ \E d \in Deployments : st_secrets = d.secrets /\ environ = d.environ
  /\ files = <<>>
  /\ pd_lenient = FALSE
  /\ \E f \in FoundSheets : ws_exists = f.exists /\ grid = f.grid

\* the process: every session, the cache expiry, the restart
Next ==
  \/ \E s \in Sessions : SessionStep(s, Forms)
  \/ Expire
  \/ Restart

Spec == Init /\ [][Next]_vars

\* one session filling in the form
NextForm ==
  \/ SessionStep(1, AllForms)
  \/ Expire
  \/ Restart

SpecForm == Init /\ [][NextForm]_vars

\* the config resolver on every combination of sources
InitConfig ==
  /\ InitProcess
  /\ resource_cache = <<>>
  /\ st_secrets \in AllSecrets
  /\ environ \in AllEnvirons
  /\ files \in AllFiles
  /\ pd_lenient = FALSE
  /\ ws_exists = FALSE
  /\ grid = <<>>

NextConfig == Rerun(1)

SpecConfig == InitConfig /\ [][NextConfig]_vars

\* load_records on every sheet content: the handle was opened earlier and the
\* sheet has been edited by hand since
InitNorm ==
  /\ InitProcess
  /\ resource_cache = <<[id |-> 1]>>
  /\ \E d \in Deployments : st_secrets = d.secrets /\ environ = d.environ
  /\ files = <<>>
  /\ pd_lenient \in BOOLEAN
  /\ ws_exists = TRUE
  /\ grid \in NormGrids

NextNorm ==
  \/ Rerun(1)
  \/ NoClick(1)
  \/ GW_Hit(1)
  \/ LR_Hit(1)
  \/ LR_Lock(1)
  \/ LR_Read(1)
  \/ LR_Store(1)
  \/ Expire

SpecNorm == InitNorm /\ [][NextNorm]_vars

(***************************************************************************)
(* Properties                                                              *)
(***************************************************************************)
\* a text with nothing but whitespace in it
IsBlank(t) == \A i \in DOMAIN t : t[i] \in Whitespace

\* the secrets store holds a non-empty block of this name
BlockSet(name) == name \in DOMAIN st_secrets /\ DOMAIN st_secrets[name] # {}
\* the environment variable is set to something non-blank
NonBlankEnv(name) == name \in DOMAIN environ /\ ~IsBlank(environ[name])

SecretsApply == BlockSet("gcp_service_account") /\ BlockSet("gsheets")
EnvJsonApplies == NonBlankEnv("GCP_SERVICE_ACCOUNT_JSON") /\ NonBlankEnv("GSHEET_URL")
EnvFileApplies == NonBlankEnv("GCP_SERVICE_ACCOUNT_FILE") /\ NonBlankEnv("GSHEET_URL")

\* the document a returned credential was taken from
CredsFrom(r, marker) == r.ok /\ r.creds.client_email = <<marker>>

\* C1: load_google_config resolves in strict priority order, first match
\* wins.  When both secrets blocks are set (a block with no key in it counts as
\* not set) the call returns the secrets credentials or fails on the blank
\* secrets URL; otherwise, when the JSON variable and GSHEET_URL are non-blank,
\* it returns the credentials of the JSON variable or fails on the JSON;
\* otherwise, when the file variable and GSHEET_URL are non-blank, it returns
\* the credentials of the file or fails on the file.  A lower source is never
\* used while a higher one applies.
C1_PriorityOrder ==
  \A s \in Sessions :
    status[s] # <<>> =>
      LET r == status[s][1]
      IN /\ SecretsApply =>
              CredsFrom(r, "{secrets}") \/ (~r.ok /\ r.error = "ValueError")
         /\ (~SecretsApply /\ EnvJsonApplies) =>
              CredsFrom(r, "{env}") \/ (~r.ok /\ r.error = "JSONDecodeError")
         /\ (~SecretsApply /\ ~EnvJsonApplies /\ EnvFileApplies) =>
              \/ CredsFrom(r, "{file}")
              \/ (~r.ok /\ r.error \in {"FileNotFoundError", "JSONDecodeError"})

\* C1 witness: all three sources apply, the file exists, and the call returned
C1_Witness ==
  /\ status[1] # <<>>
  /\ status[1][1].ok
  /\ SecretsApply /\ EnvJsonApplies /\ EnvFileApplies
  /\ <<"creds.json">> \in DOMAIN files

NoneResolves ==
  /\ ~SecretsApply
  /\ \/ ~NonBlankEnv("GSHEET_URL")
     \/ (~NonBlankEnv("GCP_SERVICE_ACCOUNT_JSON") /\ ~NonBlankEnv("GCP_SERVICE_ACCOUNT_FILE"))

\* C2: when no source resolves, load_google_config returns no triple and fails
\* with the error that lists the three configuration methods; whenever it
\* returns, the spreadsheet URL and the worksheet name are non-empty.
C2_FailsOrComplete ==
  \A s \in Sessions :
    status[s] # <<>> =>
      LET r == status[s][1]
      IN /\ NoneResolves =>
              /\ ~r.ok
              /\ r.error[1] = "RuntimeError"
              /\ Len(r.error) = 4
         /\ r.ok => r.spreadsheet_url # <<>> /\ r.worksheet_name # <<>>

\* C2 witness: nothing resolves although a credential variable is set (the URL
\* is blank), and the call has failed
C2_Witness ==
  /\ status[1] # <<>>
  /\ ~status[1][1].ok
  /\ NoneResolves
  /\ NonBlankEnv("GCP_SERVICE_ACCOUNT_JSON")
  /\ "GSHEET_URL" \in DOMAIN environ

\* row 1 of the sheet starts with the expected columns
StartsWithHeaders(g) ==
  /\ Len(g) >= 1
  /\ Len(g[1]) >= Len(HEADERS)
  /\ \A i \in DOMAIN HEADERS : g[1][i] = HEADERS[i]

\* C3: header repair is idempotent.  ensure_headers goes on to write row 1 if
\* and only if row 1 does not start with HEADERS; when it returns, row 1 starts
\* with HEADERS; a call on a correct header row writes nothing and leaves the
\* sheet as it was.
C3_HeaderRepairIdempotent ==
  [][ \A s \in Sessions :
        /\ (pc[s] = "eh_read" /\ pc'[s] \in {"eh_write", "gw_store"}) =>
              /\ pc'[s] = "eh_write" <=> ~StartsWithHeaders(grid)
              /\ grid' = grid
              /\ header_writes' = header_writes
        /\ (pc[s] \in {"eh_read", "eh_write"} /\ pc'[s] = "gw_store") =>
              StartsWithHeaders(grid')
        /\ (pc[s] = "eh_write" /\ pc'[s] = "gw_store") =>
              header_writes' = header_writes + 1
    ]_vars

\* C3 witness: a second ensure_headers call has returned without a write: the
\* first process repaired the header and appended, the restarted process has
\* run ensure_headers again, and one header write was made in all
C3_Witness ==
  \E s \in Sessions :
    /\ pc[s] = "gw_store"
    /\ restarts = 1
    /\ clock >= 1
    /\ header_writes = 1

\* the table holds the appended row in its declared columns
Contains(table, r) ==
  \E i \in DOMAIN table.rows :
    \A c \in DOMAIN HEADERS : table.rows[i][HEADERS[c]] = r[c]

\* C4: the read cache is invalidated after every successful append so that
\* reads are not stale: once a submission has completed, the cache never holds
\* (and load_records never returns) a table without the appended row.
C4_NoStaleCache ==
  data_cache # <<>> => \A r \in completed : Contains(data_cache[1], r)

\* C5: a submission whose drug_name or details is blank after trimming is
\* aborted before any write: get_worksheet is not called, nothing is appended,
\* the read cache is not cleared and the sheet is unchanged; and a submission
\* is past validation only with both fields non-blank.
C5_BlankAborted ==
  [][ \A s \in Sessions :
        /\ ( /\ pc[s] = "validate"
             /\ pc'[s] # "validate"
             /\ restarts' = restarts
             /\ IsBlank(form[s][1].drug_name) \/ IsBlank(form[s][1].details) ) =>
              /\ pc'[s] = "history"
              /\ form'[s] = <<>>
              /\ ws'[s] = <<>>
              /\ UNCHANGED <<backend_vars, cache_vars, clock, completed, header_writes>>
        /\ pc'[s] \in {"gw_call", "gw_open", "gw_lookup", "eh_read", "eh_write",
                       "gw_store", "append", "clear"} /\ form'[s] # <<>> =>
              ~IsBlank(form'[s][1].drug_name) /\ ~IsBlank(form'[s][1].details)
    ]_vars

\* C5 witness: a submission with a blank field was aborted: the errors are
\* shown and the run has gone on to the history tab
C5_Witness ==
  \E s \in Sessions : pc[s] = "history" /\ errors[s] # {} /\ form[s] = <<>>

\* t is raw without its leading and trailing whitespace
IsTrimOf(t, raw) ==
  /\ t = <<>> \/ (t[1] \notin Whitespace /\ t[Len(t)] \notin Whitespace)
  /\ \E a \in 0..Len(raw) :
       /\ a + Len(t) <= Len(raw)
       /\ \A i \in 1..a : raw[i] \in Whitespace
       /\ \A i \in 1..Len(t) : raw[a + i] = t[i]
       /\ \A i \in (a + Len(t) + 1)..Len(raw) : raw[i] \in Whitespace

\* C8: every append_incident call submits exactly one row in one append, with
\* nine cells in HEADERS order: recorded_at non-empty, unit_name, reporter,
\* event_date, event_time, process and severity as given, drug_name and
\* details trimmed; and a read after it yields that row in the declared columns.
C8_AppendedRow ==
  [][ \A s \in Sessions :
        /\ (pc[s] = "append" /\ pc'[s] = "clear") =>
              LET f == form[s][1]
                  r == grid'[Len(grid')]
              IN /\ Len(grid') = Len(grid) + 1
                 /\ \A i \in DOMAIN grid : grid'[i] = grid[i]
                 /\ Len(r) = Len(HEADERS)
                 /\ r[1] # <<>>
                 /\ r[2] = Get(environ, "UNIT_NAME", <<"unspecified unit">>)
                 /\ r[3] = f.reporter
                 /\ r[4] = <<DateText[f.event_date]>>
                 /\ r[5] = <<TimeText[f.event_time]>>
                 /\ r[6] = <<f.process>>
                 /\ IsTrimOf(r[7], f.drug_name)
                 /\ r[8] = <<f.severity>>
                 /\ IsTrimOf(r[9], f.details)
                 /\ row'[s] = <<r>>
        /\ (pc[s] = "lr_read" /\ pc'[s] = "lr_store") =>
              /\ df'[s][1].columns = HEADERS
              /\ \A r \in completed : Contains(df'[s][1], r)
    ]_vars

\* C8 witness: a form with padded free text was appended and its row, trimmed,
\* read back
C8_Witness ==
  /\ data_cache # <<>>
  /\ \E r \in completed :
       /\ r[7] = <<"Insulin">>
       /\ r[9] = <<"over", " ", "dose">>
       /\ r[8] = <<SEVERITY_OPTIONS[9]>>
       /\ Contains(data_cache[1], r)

\* the tables load_records has computed or returned: the one a call holds
\* and the cache entry, which is what every call returns
Tables ==
  {df[s][1] : s \in {x \in Sessions : df[x] # <<>>}}
    \cup {data_cache[1] : x \in {y \in {1} : data_cache # <<>>}}

\* the event date-time of an output row, NaT when it does not parse
EventDateTime(r) ==
  to_datetime(Strip(r[<<"event_date">>]) \o <<" ">> \o Strip(r[<<"event_time">>]))

\* C6: load_records returns the rows by event date-time descending, every row
\* whose event_date + " " + event_time does not parse after all rows that do:
\* for output rows i < j, row j does not parse, or both parse and
\* datetime(i) >= datetime(j).
C6_SortedDescendingNaTLast ==
  \A t \in Tables :
    \A i, j \in DOMAIN t.rows :
      i < j =>
        \/ EventDateTime(t.rows[j]) = NaT
        \/ /\ EventDateTime(t.rows[i]) # NaT
           /\ EventDateTime(t.rows[i])[1] >= EventDateTime(t.rows[j])[1]

\* C6 witness: the sheet holds an unparseable row above a parseable one and
\* the returned table holds the parseable one first
C6_Witness ==
  /\ data_cache # <<>>
  /\ Len(grid) = 3
  /\ grid[1] = HEADERS
  /\ grid[2][4] = <<"n/a">>
  /\ Len(data_cache[1].rows) = 2
  /\ data_cache[1].rows[1][<<"recorded_at">>] = grid[3][1]
  /\ EventDateTime(data_cache[1].rows[1]) # NaT
  /\ EventDateTime(data_cache[1].rows[2]) = NaT

\* the cell of data row i of the sheet under column col, "" when the sheet
\* has no such column
RawCell(g, i, col) ==
  IF \E c \in DOMAIN g[1] : g[1][c] = col
  THEN g[i + 1][CHOOSE c \in DOMAIN g[1] : g[1][c] = col]
  ELSE <<>>

\* C7: for every raw read result the returned table has exactly the columns
\* HEADERS in declared order (no sort-key column), one output row per input
\* row, and the empty string in every declared column the input lacks.
C7_DeclaredColumns ==
  \A t \in Tables :
    LET n == IF Len(grid) < 2 THEN 0 ELSE Len(grid) - 1
    IN /\ t.columns = HEADERS
       /\ Len(t.rows) = n
       /\ \A j \in DOMAIN t.rows : DOMAIN t.rows[j] = Range(HEADERS)
       /\ \E perm \in [1..n -> 1..n] :
            /\ \A a, b \in 1..n : a # b => perm[a] # perm[b]
            /\ \A i \in 1..n : \A c \in DOMAIN HEADERS :
                 t.rows[perm[i]][HEADERS[c]] = RawCell(grid, i, HEADERS[c])

\* C7 witness: a sheet with one declared column only and two rows was read
C7_Witness ==
  /\ data_cache # <<>>
  /\ grid[1] = << <<"drug_name">> >>
  /\ Len(grid) = 3
  /\ Len(data_cache[1].rows) = 2
  /\ data_cache[1].rows[1][<<"details">>] = <<>>

\* a row append_incident wrote: its first cell is a recorded_at timestamp
IsIncidentRecord(r) == r # <<>> /\ r[1] \in {now_str(c) : c \in 1..MaxAppends}

\* C9: no record is mutated or deleted: the rows below row 1 only grow, by one
\* row at the end per append; the only other write is the header repair, which
\* changes row 1 only and never a row that holds an incident record.
C9_AppendOnly ==
  [][ /\ Len(grid') >= Len(grid)
      /\ \A i \in 2..Len(grid) : grid'[i] = grid[i]
      /\ Len(grid') > Len(grid) =>
           /\ Len(grid') = Len(grid) + 1
           /\ \/ \E s \in Sessions :
                   /\ pc[s] = "append"
                   /\ Len(grid) >= 1
                   /\ grid'[1] = grid[1]
                   /\ IsIncidentRecord(grid'[Len(grid')])
              \/ \E s \in Sessions :
                   pc[s] = "eh_write" /\ grid = <<>> /\ grid' = <<HEADERS>>
      /\ (Len(grid) >= 1 /\ grid'[1] # grid[1]) =>
           /\ \E s \in Sessions : pc[s] = "eh_write"
           /\ ~IsIncidentRecord(grid[1])
           /\ Len(grid') = Len(grid)
    ]_vars

\* C9 witness: an older sheet with a record had its header repaired and a row
\* appended, the old record still in place
C9_Witness ==
  /\ header_writes >= 1
  /\ Len(grid) = 3
  /\ Len(grid[2]) = Len(LegacyHeader)
  /\ IsIncidentRecord(grid[3])
  /\ restarts = 1

ConstructionSteps == {"gw_open", "gw_lookup", "eh_read", "eh_write", "gw_store"}

\* C10: the cached handle is Unopened or Open.  It becomes Open only when
\* get_worksheet has run to its end (config resolved, worksheet there, header
\* in place); a failed construction leaves it Unopened; once Open it stays
\* Open in the process, and every later get_worksheet call returns that handle
\* without running get_worksheet again.
C10_HandleStates ==
  [][ /\ (resource_cache = <<>> /\ resource_cache' # <<>>) =>
           \E s \in Sessions :
             /\ pc[s] = "gw_store"
             /\ resource_lock = s
             /\ load_google_config.ok
             /\ ws_exists
             /\ StartsWithHeaders(grid)
             /\ ws'[s] = resource_cache'
      /\ (resource_cache # <<>> /\ restarts' = restarts) =>
           resource_cache' = resource_cache
      /\ \A s \in Sessions :
           /\ ( /\ pc[s] \in ConstructionSteps
                /\ pc'[s] \notin ConstructionSteps \cup {"append", "lr_read"} ) =>
                 resource_cache' = <<>> /\ resource_lock' = 0
           /\ ( /\ pc[s] = "gw_call"
                /\ pc'[s] # "gw_call"
                /\ resource_cache # <<>>
                /\ restarts' = restarts ) =>
                 /\ pc'[s] \in {"append", "lr_read"}
                 /\ ws'[s] = resource_cache
                 /\ UNCHANGED <<backend_vars, cache_vars, header_writes>>
    ]_vars

\* C10 witness: one session opened the handle, a submission was appended
\* through it, and a later call of the other session returned the same handle
C10_Witness ==
  /\ resource_cache # <<>>
  /\ ws[1] = resource_cache
  /\ ws[2] = resource_cache
  /\ restarts = 0
  /\ clock >= 1

====
